---- MODULE Spec2Model ----
(***************************************************************************)
(* Model of idaes.apps.grid_integration.multiperiod.MultiPeriodModel:      *)
(* the constructor (with the stochastic build it runs), the rolling        *)
(* horizon build build_multi_period_model and advance_time; and of          *)
(* PriceTakerModel: its seed and horizon_length, the reshaping of a raw     *)
(* price series into days, the choice of a cluster count and the            *)
(* clustering into representative days.                                     *)
(*                                                                         *)
(* The user callbacks (process-model factory, linking function, periodic   *)
(* function) are inputs: each call either returns or raises.  A linking    *)
(* function returns a list of pairs; the model keeps its length and the    *)
(* (source, target) blocks it was called with.                             *)
(*                                                                         *)
(* Prices are counted in units of 1e-5, so 1e-4 is 10.  sklearn's KMeans    *)
(* and kneed's KneeLocator are libraries: a fit reads the process-wide      *)
(* numpy random state and moves it on; the knee is any candidate or None.   *)
(***************************************************************************)
EXTENDS Integers, Sequences, FiniteSets, TLC

\* ---------------------------------------------------------------- bounds
MaxN == 3          \* n_time_points ranges over 1..MaxN
MaxAdvance == 3    \* advance_time is called while TIME has < MaxN + MaxAdvance indices
MaxPairs == 1      \* a linking / periodic function returns 0..MaxPairs pairs
MaxAxis == 2       \* day / year / scenario labels are drawn from 1..MaxAxis
MaxDays == 2       \* a raw price series holds 0..MaxDays days of 2 or 24 samples
MaxK == 3          \* cluster counts asked for range over 0..MaxK
RngStates == 3     \* the numpy random state is one of 0..RngStates-1

\* ---------------------------------------------------------------- values
None == -1                     \* Python None for an integer-valued field
NoScenario == 0                \* the single implicit scenario (blocks live on self)

VARIABLES
    args,               \* the constructor arguments
    pc,                 \* "new" | "constructed" | "init_raised"
    n_time_points,      \* self.n_time_points
    multiple_days,      \* self._multiple_days
    multiyear,          \* self._multiyear
    stochastic_model,   \* self._stochastic_model
    set_time,           \* self.set_time   (ordered)
    set_days,           \* self.set_days   (ordered)
    set_years,          \* self.set_years  (ordered)
    set_scenarios,      \* self.set_scenarios (ordered)
    set_period,         \* self.set_period (ordered)
    period,             \* (scenario, index) -> period block of the stochastic build
    trace,              \* callbacks and library calls made by the stochastic build, in order
    seed_result,        \* termination the solver reported for the seed instance
    pyomo_model,        \* self._pyomo_model : "None" | "self"
    first_active_time,  \* self._first_active_time
    TIME,               \* m.TIME (ordered set), <<>> before the first build
    blocks,             \* m.blocks : index -> block data
    build_called,       \* build_multi_period_model has been called on the object
    calls,              \* the most recent call: its name, its kwargs, the callbacks it invoked
    err,                \* exception raised by the most recent call, "none" if it returned
    advance_raised,     \* some advance_time call on the built model has raised
    price_pc,           \* the PriceTakerModel: "new" | "constructed" | "hangs"
    _seed,              \* PriceTakerModel._seed
    _horizon_length,    \* PriceTakerModel._horizon_length
    raw_data,           \* the raw price series handed to the PriceTakerModel methods
    np_random,          \* state of numpy's process-wide random generator
    ret,                \* the most recent PriceTakerModel call: name, arguments, outcome
    lmp_pc,             \* "none" until append_lmp_data has assigned the attributes below
    _n_time_points,     \* PriceTakerModel._n_time_points
    pt_set_time,        \* PriceTakerModel.set_time  (ordered)
    pt_set_days,        \* PriceTakerModel.set_days  : None, or an ordered set
    pt_set_years,       \* PriceTakerModel.set_years : None, or a list
    LMP,                \* PriceTakerModel.LMP     : index tuple -> price
    WEIGHTS             \* PriceTakerModel.WEIGHTS : index tuple -> number of days

multiVars == <<args, pc, n_time_points, multiple_days, multiyear, stochastic_model,
          set_time, set_days, set_years, set_scenarios, set_period, period, trace,
          seed_result, pyomo_model, first_active_time, TIME, blocks, build_called, calls, err,
          advance_raised>>

priceVars == <<price_pc, _seed, _horizon_length, raw_data, np_random, ret>>

lmpVars == <<lmp_pc, _n_time_points, pt_set_time, pt_set_days, pt_set_years, LMP, WEIGHTS>>

vars == <<multiVars, priceVars, lmpVars>>

stochVars == <<multiple_days, multiyear, stochastic_model, set_time, set_days,
               set_years, set_scenarios, set_period, period, trace, seed_result>>

\* ---------------------------------------------------------------- helpers
Range(s) == {s[i] : i \in 1..Len(s)}

RECURSIVE FlatMap(_, _)
\* [F(x) for x in s], the sequences F(x) concatenated in the order of s
FlatMap(F(_), s) ==
    IF s = <<>> THEN <<>>
    ELSE IF Len(s) = 1 THEN F(s[1])
    ELSE LET m == Len(s) \div 2
         IN  FlatMap(F, SubSeq(s, 1, m)) \o FlatMap(F, SubSeq(s, m + 1, Len(s)))

\* injective sequences over S (Pyomo ordered sets given as distinct labels)
RECURSIVE OrderedSets(_)
OrderedSets(S) ==
    {<<>>} \cup UNION {{<<x>> \o r : r \in OrderedSets(S \ {x})} : x \in S}

\* pyo.Set(initialize=seq): insertion order kept, a repeated member dropped
RECURSIVE PyoSet(_)
PyoSet(seq) ==
    IF Len(seq) <= 1 THEN seq
    ELSE LET m == Len(seq) \div 2
             r == PyoSet(SubSeq(seq, 1, m))
         IN  r \o SelectSeq(PyoSet(SubSeq(seq, m + 1, Len(seq))),
                            LAMBDA x : x \notin Range(r))

\* pyo.RangeSet(n): 1..n in increasing order
RangeSet(n) == [i \in 1..n |-> i]

\* position of x in the ordered set s (1-based), 0 when absent
Position(s, x) == IF x \in Range(s) THEN CHOOSE i \in 1..Len(s) : s[i] = x ELSE 0

\* ---------------------------------------------------------------- blocks of m.blocks
\* a component slot of a process block that holds no component
NoComp == [exists |-> FALSE, active |-> FALSE, cons |-> <<>>]

\* m.blocks[t] as Block(m.TIME) creates it: no process attribute yet
EmptyBlock == [process |-> FALSE, active |-> FALSE,
               link_constraints |-> NoComp, periodic_constraints |-> NoComp]

\* m.blocks[t] after m.blocks[t].process = create_process_model(...)
NewProcess == [process |-> TRUE, active |-> TRUE,
               link_constraints |-> NoComp, periodic_constraints |-> NoComp]

\* m.blocks[i]: an index of the index set that has no block data yet gets an empty block
GetItem(b, i) == IF i \in DOMAIN b THEN b ELSE b @@ (i :> EmptyBlock)

\* the list of pairs linking_variable_func(source, target) returns:
\* pair k joins variable k of the source block to variable k of the target block
get_linking_variable_pairs(src, tgt) ==
    [k \in 1..args.nLinkPairs |-> [src |-> src, tgt |-> tgt, k |-> k]]

\* variant: the periodic function is called with its two blocks exchanged
get_periodic_variable_pairs_Reversed(src, tgt) ==
    [k \in 1..args.nPeriodicPairs |-> [src |-> tgt, tgt |-> src, k |-> k]]

\* the list of pairs periodic_variable_func(source, target) returns
get_periodic_variable_pairs(src, tgt) ==
    [k \in 1..args.nPeriodicPairs |-> [src |-> src, tgt |-> tgt, k |-> k]]

\* pyo.Constraint(range(len(pairs))) filled by enumerate(pairs): indexed 0..len-1
ConstraintOver(variable_pairs) ==
    [exists |-> TRUE, active |-> TRUE,
     cons |-> [i \in 0..(Len(variable_pairs) - 1) |-> variable_pairs[i + 1]]]

\* _create_linking_constraints(b1, variable_pairs)
create_linking_constraints(b1, variable_pairs) ==
    [b1 EXCEPT !.link_constraints = ConstraintOver(variable_pairs)]

\* _create_periodic_constraints(b1, variable_pairs)
create_periodic_constraints(b1, variable_pairs) ==
    [b1 EXCEPT !.periodic_constraints = ConstraintOver(variable_pairs)]

\* model_data_kwargs = None
NoKwargs == [none |-> TRUE, keys |-> {}]

\* a call of method op that has invoked no callback yet
Call(op, kwargs) == [op |-> op, kwargs |-> kwargs, factory |-> 0, link |-> 0, periodic |-> 0]

\* ---------------------------------------------------------------- inputs
\* constructor arguments.  The stochastic build reads the axes and the two
\* lifecycle callbacks; the rolling-horizon methods read the periodic function.
MultiArgs ==
    {[n_time_points |-> n, use_stochastic_build |-> FALSE, has_periodic |-> hp,
      nLinkPairs |-> lp, nPeriodicPairs |-> pp,
      days_given |-> FALSE, days |-> <<>>, years_given |-> FALSE, years |-> <<>>,
      scenarios_given |-> FALSE, scenarios |-> <<>>,
      has_init |-> FALSE, has_unfix |-> FALSE] :
        n \in 1..MaxN, hp \in BOOLEAN, lp \in 0..MaxPairs, pp \in 0..MaxPairs}

\* set_years: None or the labels k, k-1, .., 1 (latest year first)
YearInputs == {[given |-> FALSE, seq |-> <<>>]} \cup
              {[given |-> TRUE, seq |-> [i \in 1..k |-> k + 1 - i]] : k \in 0..MaxAxis}

\* set_days: None or distinct labels in any order
AxisInputs == {[given |-> FALSE, seq |-> <<>>]} \cup
              {[given |-> TRUE, seq |-> q] : q \in OrderedSets(1..MaxAxis)}

\* set_scenarios: None or the labels 1..k
ScenarioInputs == {[given |-> FALSE, seq |-> <<>>]} \cup
                  {[given |-> TRUE, seq |-> RangeSet(k)] : k \in 0..MaxAxis}

StochasticArgs ==
    {[n_time_points |-> n, use_stochastic_build |-> TRUE, has_periodic |-> FALSE,
      nLinkPairs |-> 1, nPeriodicPairs |-> 0,
      days_given |-> d.given, days |-> d.seq,
      years_given |-> y.given, years |-> y.seq,
      scenarios_given |-> sc.given, scenarios |-> sc.seq,
      has_init |-> hi, has_unfix |-> hu] :
        n \in 1..MaxN, d \in AxisInputs, y \in YearInputs, sc \in ScenarioInputs,
        hi \in BOOLEAN, hu \in BOOLEAN}

\* model_data_kwargs of build_multi_period_model: None or a dict, by its key set
KwargsInputs == {NoKwargs} \cup
                {[none |-> FALSE, keys |-> K] : K \in SUBSET (0..MaxN)}

\* what the user callbacks do during one call: all return, or one call raises
BuildOutcomes(n) == {<<"ok", 0>>} \cup {<<"factory", t>> : t \in 0..(n - 1)}
                    \cup {<<"link", t>> : t \in 0..(n - 2)} \cup {<<"periodic", 0>>}

AdvanceOutcomes == {"ok", "factory", "link", "periodic"}

\* ---------------------------------------------------------------- Init
\* no PriceTakerModel call has been made
NoCall == [op |-> "none", args |-> <<>>, err |-> "none", value |-> <<>>]

\* a MultiPeriodModel not yet constructed
MultiNew ==
    /\ pc = "new"
    /\ n_time_points = None
    /\ multiple_days = FALSE
    /\ multiyear = FALSE
    /\ stochastic_model = FALSE
    /\ set_time = <<>>
    /\ set_days = <<>>
    /\ set_years = <<>>
    /\ set_scenarios = <<>>
    /\ set_period = <<>>
    /\ period = <<>>
    /\ trace = <<>>
    /\ seed_result = "unsolved"
    /\ pyomo_model = "None"
    /\ first_active_time = None
    /\ TIME = <<>>
    /\ blocks = <<>>
    /\ build_called = FALSE
    /\ calls = Call("none", NoKwargs)
    /\ err = "none"
    /\ advance_raised = FALSE

\* a PriceTakerModel not yet constructed
PriceNew ==
    /\ price_pc = "new"
    /\ _seed = None
    /\ _horizon_length = None
    /\ ret = NoCall

\* append_lmp_data not yet called: the attributes it assigns do not exist
NotSet == [given |-> FALSE, seq |-> <<>>]

LmpNew ==
    /\ lmp_pc = "none"
    /\ _n_time_points = None
    /\ pt_set_time = <<>>
    /\ pt_set_days = NotSet
    /\ pt_set_years = NotSet
    /\ LMP = <<>>
    /\ WEIGHTS = <<>>

Init ==
    /\ args \in MultiArgs \cup StochasticArgs
    /\ MultiNew
    /\ PriceNew
    /\ LmpNew
    /\ raw_data = <<>>
    /\ np_random = 0

\* ---------------------------------------------------------------- stochastic build
SeedInstance == -2             \* blk, the throwaway single-period instance

\* termination conditions the solver may report for the seed instance
Terminations == {"optimal", "infeasible", "maxIterations"}

\* variant: only an infeasible seed is treated as a failed solve
check_optimal_termination_Lenient(term) == term # "infeasible"

\* pyo.check_optimal_termination(result)
check_optimal_termination(term) == term = "optimal"

\* variant: the year axis is left out when there is no day axis
ComposePeriods_NoYears(multi_days, multi_year, time, days, years) ==
    IF multi_year /\ multi_days
    THEN FlatMap(LAMBDA y : FlatMap(LAMBDA d : FlatMap(LAMBDA t : << <<t, d, y>> >>,
                                                       time), days), years)
    ELSE IF ~multi_year /\ multi_days
    THEN FlatMap(LAMBDA d : FlatMap(LAMBDA t : << <<t, d>> >>, time), days)
    ELSE FlatMap(LAMBDA t : << <<t>> >>, time)

\* variant: the day loop is the outer loop and the year loop is inside it
ComposePeriods_DayOuter(multi_days, multi_year, time, days, years) ==
    IF multi_year /\ multi_days
    THEN FlatMap(LAMBDA d : FlatMap(LAMBDA y : FlatMap(LAMBDA t : << <<t, d, y>> >>,
                                                       time), years), days)
    ELSE IF multi_year /\ ~multi_days
    THEN FlatMap(LAMBDA y : FlatMap(LAMBDA t : << <<t, y>> >>, time), years)
    ELSE IF ~multi_year /\ multi_days
    THEN FlatMap(LAMBDA d : FlatMap(LAMBDA t : << <<t, d>> >>, time), days)
    ELSE FlatMap(LAMBDA t : << <<t>> >>, time)

\* the list set_period: the comprehension's outer loop first, time innermost.
\* A time-only index t is kept as the 1-tuple <<t>>.
ComposePeriods(multi_days, multi_year, time, days, years) ==
    IF multi_year /\ multi_days
    THEN FlatMap(LAMBDA y : FlatMap(LAMBDA d : FlatMap(LAMBDA t : << <<t, d, y>> >>,
                                                       time), days), years)
    ELSE IF multi_year /\ ~multi_days
    THEN FlatMap(LAMBDA y : FlatMap(LAMBDA t : << <<t, y>> >>, time), years)
    ELSE IF ~multi_year /\ multi_days
    THEN FlatMap(LAMBDA d : FlatMap(LAMBDA t : << <<t, d>> >>, time), days)
    ELSE FlatMap(LAMBDA t : << <<t>> >>, time)

\* the containers that get a period block each: every scenario block, or self
ScenarioModels(stochastic, scenarios) ==
    IF stochastic THEN scenarios ELSE <<NoScenario>>

\* (scenario, index) of every period block in the order the loops visit them
BlockOrder(scenario_models, periods) ==
    FlatMap(LAMBDA sc : FlatMap(LAMBDA p : << <<sc, p>> >>, periods), scenario_models)

\* one call of op per visited block
Events(op, order) ==
    [i \in 1..Len(order) |-> [op |-> op, s |-> order[i][1], p |-> order[i][2]]]

SeedEvent(op) == [op |-> op, s |-> SeedInstance, p |-> <<>>]

\* the message printed when a lifecycle callback is None
Warning(callback) == [op |-> "print_warning", s |-> None, p |-> <<callback>>]

\* variant: the build goes on to the seed instance without an initializer
StopsWithoutInitializer_Never(a) == FALSE

\* if initialization_func is None: print the warning and return
StopsWithoutInitializer(a) == ~a.has_init

\* if unfix_dof_func is None: print the warning and return
StopsWithoutUnfix(a) == ~a.has_unfix

\* variant: each block is unfixed right after it received the snapshot
SnapshotThenUnfix_Interleaved(order) ==
    FlatMap(LAMBDA o : << [op |-> "from_json", s |-> o[1], p |-> o[2]],
                          [op |-> "unfix_dof_func", s |-> o[1], p |-> o[2]] >>, order)

\* the from_json loops over every block, then the unfix_dof_func loops
SnapshotThenUnfix(order) ==
    Events("from_json", order) \o Events("unfix_dof_func", order)

\* build_stochastic_multiperiod: the period blocks, the calls made, the exception
build_stochastic_multiperiod(a, periods, scenario_models, term) ==
    LET order == BlockOrder(scenario_models, periods)
        built == Events("create_process_model", order)
        seed  == << SeedEvent("create_process_model"), SeedEvent("initialization_func"),
                    SeedEvent("solve") >>
        blk(i, u) == [o \in Range(order) |->
                         [initialized |-> i, unfixed |-> u, link_constraints |-> NoComp]]
    IN  IF StopsWithoutInitializer(a)
        THEN [period |-> blk(FALSE, FALSE),
              trace |-> built \o << Warning("initialization_func") >>,
              err |-> "none", seed_result |-> "unsolved"]
        ELSE IF ~check_optimal_termination(term)
        THEN [period |-> blk(FALSE, FALSE), trace |-> built \o seed,
              err |-> "AssertionError", seed_result |-> term]
        ELSE IF StopsWithoutUnfix(a)
        THEN [period |-> blk(TRUE, FALSE),
              trace |-> built \o seed \o << SeedEvent("to_json") >>
                        \o Events("from_json", order)
                        \o << Warning("unfix_dof_func") >>,
              err |-> "none", seed_result |-> term]
        ELSE [period |-> blk(TRUE, TRUE),
              trace |-> built \o seed \o << SeedEvent("to_json") >>
                        \o SnapshotThenUnfix(order),
              err |-> "none", seed_result |-> term]

\* MultiPeriodModel.__init__ called with the arguments a
MultiPeriodModel__init__(a) ==
    /\ n_time_points' = a.n_time_points
    /\ calls' = Call("__init__", NoKwargs)
    /\ UNCHANGED <<pyomo_model, first_active_time, TIME, blocks, build_called,
                   advance_raised>>
    /\ IF ~a.use_stochastic_build
       THEN /\ pc' = "constructed"
            /\ err' = "none"
            /\ UNCHANGED stochVars
       ELSE \E term \in Terminations :
            LET time    == RangeSet(a.n_time_points)
                days    == PyoSet(a.days)
                years   == PyoSet(a.years)
                scens   == PyoSet(a.scenarios)
                periods == PyoSet(ComposePeriods(a.days_given, a.years_given,
                                                 time, days, years))
                res     == build_stochastic_multiperiod(
                               a, periods,
                               ScenarioModels(a.scenarios_given, scens), term)
            IN  /\ set_time' = time
                /\ multiple_days' = a.days_given
                /\ set_days' = days
                /\ multiyear' = a.years_given
                /\ set_years' = years
                /\ stochastic_model' = a.scenarios_given
                /\ set_scenarios' = scens
                /\ set_period' = periods
                /\ period' = res.period
                /\ trace' = res.trace
                /\ seed_result' = res.seed_result
                /\ err' = res.err
                /\ pc' = IF res.err = "none" THEN "constructed" ELSE "init_raised"

\* MultiPeriodModel(...) called by the user
Construct ==
    /\ pc = "new"
    /\ MultiPeriodModel__init__(args)
    /\ UNCHANGED args
    /\ UNCHANGED priceVars
    /\ UNCHANGED lmpVars

\* ---------------------------------------------------------------- rolling horizon
\* result of one call on the rolling-horizon state
Returns(model, first, time, b, c, e) ==
    /\ pyomo_model' = model
    /\ first_active_time' = first
    /\ TIME' = time
    /\ blocks' = b
    /\ calls' = c
    /\ err' = e
    /\ advance_raised' = (advance_raised \/ (pyomo_model = "self" /\ e # "none"))
    /\ build_called' = (build_called \/ c.op = "build_multi_period_model")
    /\ UNCHANGED <<args, pc, n_time_points>>
    /\ UNCHANGED stochVars
    /\ UNCHANGED priceVars
    /\ UNCHANGED lmpVars

\* variant: _pyomo_model and _first_active_time are assigned before the loops
BuildAborted_Exposed(time, b, c, e) ==
    Returns("self", IF time = <<>> THEN None ELSE time[1], time, b, c, e)

\* a build that raises does not reach the assignments of _pyomo_model and
\* _first_active_time; what it did to TIME and blocks stays
BuildAborted(time, b, c, e) == Returns(pyomo_model, first_active_time, time, b, c, e)

\* a build that runs to its end
BuildCompleted(time, b, c) == Returns("self", time[1], time, b, c, "none")

\* assert list(range(len(model_data_kwargs))) == sorted(model_data_kwargs)
KwargsAccepted(keys) == keys = 0..(Cardinality(keys) - 1)

\* the time indices whose block is linked to its successor by the build
LinkedTimes(n) == 0..(n - 2)

\* m.blocks after the factory loop ran for the indices below k
BlocksBuilt(n, k) == [t \in 0..(n - 1) |-> IF t < k THEN NewProcess ELSE EmptyBlock]

\* m.blocks after the linking loop ran for the indices below j
BlocksLinked(b, n, j) ==
    [t \in DOMAIN b |->
        IF t \in LinkedTimes(n) /\ t < j
        THEN create_linking_constraints(b[t], get_linking_variable_pairs(t, t + 1))
        ELSE b[t]]

\* m.blocks after the periodic constraint was put on the last block
BlocksClosed(b, n) ==
    [b EXCEPT ![n - 1] =
        create_periodic_constraints(b[n - 1], get_periodic_variable_pairs(n - 1, 0))]

\* MultiPeriodModel.build_multi_period_model(model_data_kwargs)
build_multi_period_model(kwargs, out) ==
    LET n     == n_time_points
        c0    == Call("build_multi_period_model", kwargs)
        keys  == IF kwargs.none THEN 0..(n - 1) ELSE kwargs.keys
        time  == [i \in 1..n |-> i - 1]
        \* first index whose kwargs lookup fails, n when none does
        noKey == CHOOSE t \in 0..n : (t = n \/ t \notin keys)
                                     /\ \A u \in 0..(t - 1) : u \in keys
        fRaise == IF out[1] = "factory" THEN out[2] ELSE n
        nLinks == Cardinality(LinkedTimes(n))
        lRaise == IF out[1] = "link" THEN out[2] ELSE nLinks
        b1    == BlocksBuilt(n, n)
        b2    == BlocksLinked(b1, n, n)
    IN  IF ~KwargsAccepted(keys)
        THEN BuildAborted(TIME, blocks, c0, "AssertionError")
        ELSE IF noKey < n /\ noKey <= fRaise
        THEN BuildAborted(time, BlocksBuilt(n, noKey),
                     [c0 EXCEPT !.factory = noKey], "KeyError")
        ELSE IF fRaise < n
        THEN BuildAborted(time, BlocksBuilt(n, fRaise),
                     [c0 EXCEPT !.factory = fRaise + 1], "CallbackError")
        ELSE IF lRaise < nLinks
        THEN BuildAborted(time, BlocksLinked(b1, n, lRaise),
                     [c0 EXCEPT !.factory = n, !.link = lRaise + 1], "CallbackError")
        ELSE IF ~args.has_periodic
        THEN BuildCompleted(time, b2,
                     [c0 EXCEPT !.factory = n, !.link = nLinks])
        ELSE IF out[1] = "periodic"
        THEN BuildAborted(time, b2,
                     [c0 EXCEPT !.factory = n, !.link = nLinks, !.periodic = 1], "CallbackError")
        ELSE BuildCompleted(time, BlocksClosed(b2, n),
                     [c0 EXCEPT !.factory = n, !.link = nLinks, !.periodic = 1])

\* build_multi_period_model is called once on an object made without the
\* stochastic build
BuildMultiPeriodModel ==
    /\ pc = "constructed"
    /\ ~args.use_stochastic_build
    /\ ~build_called
    /\ \E kwargs \in KwargsInputs, out \in BuildOutcomes(n_time_points) :
           build_multi_period_model(kwargs, out)

\* m.TIME.next(t) exists
HasNext(time, t) == Position(time, t) > 0 /\ Position(time, t) < Len(time)

\* variant: the current time is not moved
NextTime_Stays(time, t) == t

\* m.TIME.next(t)
NextTime(time, t) == time[Position(time, t) + 1]

\* m.TIME.last()
LastTime(time) == time[Len(time)]

\* block.deactivate() / constraint.deactivate()
Deactivated(c) == [c EXCEPT !.active = FALSE]

\* variant: m is taken to be self, which always exists
HasNoModel_Never(model) == FALSE

\* m = self._pyomo_model is None: m.TIME raises AttributeError
HasNoModel(model) == model = "None"

\* variant: the old periodic constraint is left active
deactivate_old_periodic_Skipped(b, last_time) == b

\* variant: the block that leaves the window is dropped from m.blocks
deactivate_previous_Dropped(b, previous_time) ==
    [t \in (DOMAIN b) \ {previous_time} |-> b[t]]

\* variant: the block that leaves the window stays active
deactivate_previous_Kept(b, previous_time) == b

\* variant: deactivating the block also deactivates the link container it holds
deactivate_previous_WithLinks(b, previous_time) ==
    [b EXCEPT ![previous_time] =
        [Deactivated(b[previous_time]) EXCEPT !.link_constraints.active = FALSE]]

\* m.blocks[previous_time].process.deactivate()
deactivate_previous(b, previous_time) ==
    [b EXCEPT ![previous_time] = Deactivated(b[previous_time])]

\* m.blocks[last_time].process.periodic_constraints.deactivate()
deactivate_old_periodic(b, last_time) ==
    [b EXCEPT ![last_time].periodic_constraints =
        Deactivated(b[last_time].periodic_constraints)]

\* MultiPeriodModel.advance_time(**model_data_kwargs)
advance_time(out) ==
    LET previous_time == first_active_time
        current_time  == NextTime(TIME, previous_time)
        b1        == GetItem(blocks, previous_time)
        b2        == deactivate_previous(b1, previous_time)
        last_time == LastTime(TIME)
        new_time  == last_time + 1
        time2     == Append(TIME, new_time)
        b3        == [GetItem(b2, new_time) EXCEPT ![new_time] = NewProcess]
        b4        == GetItem(b3, last_time)
        b5        == [b4 EXCEPT ![last_time] = create_linking_constraints(
                          b4[last_time], get_linking_variable_pairs(last_time, new_time))]
        b6        == GetItem(b5, current_time)
        b7        == [b6 EXCEPT ![new_time] = create_periodic_constraints(
                          b6[new_time], get_periodic_variable_pairs(new_time, current_time))]
        b8        == deactivate_old_periodic(b7, last_time)
        c0        == Call("advance_time", NoKwargs)
        c1        == [c0 EXCEPT !.factory = 1]
        c2        == [c1 EXCEPT !.link = 1]
        c3        == [c2 EXCEPT !.periodic = 1]
    IN  IF HasNoModel(pyomo_model)
        THEN Returns(pyomo_model, first_active_time, TIME, blocks, c0, "AttributeError")
        ELSE IF ~HasNext(TIME, previous_time)
        THEN Returns(pyomo_model, first_active_time, TIME, blocks, c0, "IndexError")
        ELSE IF ~b1[previous_time].process
        THEN Returns(pyomo_model, first_active_time, TIME, b1, c0, "AttributeError")
        ELSE IF out = "factory"
        THEN Returns(pyomo_model, current_time, time2, b2, c1, "CallbackError")
        ELSE IF ~b4[last_time].process
        THEN Returns(pyomo_model, current_time, time2, b4, c1, "AttributeError")
        ELSE IF out = "link"
        THEN Returns(pyomo_model, current_time, time2, b4, c2, "CallbackError")
        ELSE IF ~args.has_periodic
        THEN Returns(pyomo_model, current_time, time2, b5, c2, "none")
        ELSE IF ~b6[current_time].process
        THEN Returns(pyomo_model, current_time, time2, b6, c2, "AttributeError")
        ELSE IF out = "periodic"
        THEN Returns(pyomo_model, current_time, time2, b6, c3, "CallbackError")
        ELSE IF ~b7[last_time].periodic_constraints.exists
        THEN Returns(pyomo_model, current_time, time2, b7, c3, "AttributeError")
        ELSE Returns(pyomo_model, current_time, time2, b8, c3, "none")

RECURSIVE SortedSeq(_)
\* the members of a finite set of integers in increasing order: the order in
\* which m.blocks, filled by increasing index, lists its keys
SortedSeq(S) ==
    IF S = {} THEN <<>>
    ELSE LET lo == CHOOSE x \in S : \A y \in S : x <= y
         IN  <<lo>> \o SortedSeq(S \ {lo})

\* get_active_process_blocks(): the process blocks, named by their index, of
\* the blocks whose process is active, in the order of m.blocks.values();
\* AttributeError when there is no model or a block has no process
get_active_process_blocks(model, b) ==
    IF HasNoModel(model) \/ \E t \in DOMAIN b : ~b[t].process
    THEN [err |-> "AttributeError", value |-> <<>>]
    ELSE [err |-> "none",
          value |-> SortedSeq({t \in DOMAIN b : b[t].active})]

AdvanceTime ==
    /\ pc = "constructed"
    /\ Len(TIME) < MaxN + MaxAdvance
    /\ \E out \in AdvanceOutcomes : advance_time(out)

Next == Construct \/ BuildMultiPeriodModel \/ AdvanceTime

Spec == Init /\ [][Next]_vars

\* ================================================================ PriceTakerModel
DefaultSeed == 20        \* __init__(seed=20)
DefaultHorizon == 24     \* __init__(horizon_length=24)
DefaultKmin == 4         \* kmin = 4 when None
DefaultKmax == 30        \* kmax = 30 when None
SnapHours == 24          \* for t in range(24)
SnapThreshold == 10      \* 1e-4, in units of 1e-5

\* ---------------------------------------------------------------- inputs
\* horizon lengths handed to the constructor and to the setter: negative,
\* zero, shorter than the 24 hours of a day, 24 and longer
HorizonInputs == {-DefaultHorizon, 0, 2, SnapHours, SnapHours + 1}

SeedInputs == {DefaultSeed, 1}

\* lengths of the raw series: up to MaxDays days of 2 or of 24 samples, the
\* longest of them also with one trailing sample, and one long series of
\* DefaultKmax days of 2 samples
RawLengths ==
    {d * h : d \in 0..MaxDays, h \in {2, SnapHours}}
        \cup {MaxDays * h + 1 : h \in {2, SnapHours}}
        \cup {2 * DefaultKmax}

\* the price of sample i (1-based): the cycle -4, 0, 4, 8, 12, 16, 20 holds a
\* negative price, a zero, prices below 1e-4 and prices above it
RawPrice(i) == ((i - 1) % 7) * 4 - 4

RawInputs == {[i \in 1..L |-> RawPrice(i)] : L \in RawLengths}

\* cluster counts asked of cluster_lmp_data; kmin and kmax of
\* get_optimal_n_clusters, None standing for the default
ClusterCounts == 0..MaxK

KminInputs == {None} \cup 1..(MaxK - 1)

KmaxInputs == {None} \cup MaxK..(MaxK + 1)

\* ---------------------------------------------------------------- helpers
RECURSIVE SumOver(_, _)
\* the sum of f[x] over the finite set S
SumOver(f, S) ==
    IF S = {} THEN 0
    ELSE LET x == CHOOSE y \in S : TRUE IN f[x] + SumOver(f, S \ {x})

\* result of a PriceTakerModel call
Outcome(op, a, e, v) == [op |-> op, args |-> a, err |-> e, value |-> v]

\* ---------------------------------------------------------------- numpy / sklearn / kneed
\* np.random.seed(value)
np_random_seed(value) == value % RngStates

\* the random state after one KMeans fit has drawn from it
np_random_next(rng) == (rng + 1) % RngStates

\* KMeans(n_clusters=k).fit(X) raises ValueError: k < 1 or fewer samples than clusters
KMeansRejects(n_samples, k) == k < 1 \/ n_samples < k

\* kmeans.labels_: one label in 0..k-1 per sample (samples numbered from 0);
\* which cluster gets which number depends on the random state of the fit
KMeansLabels(X, k, rng) == [j \in 0..(Cardinality(DOMAIN X) - 1) |-> (j + rng) % k]

\* kmeans.cluster_centers_: per cluster the mean of its samples, rounded down
\* to the price unit
KMeansCenters(X, h, k, labels) ==
    [c \in 0..(k - 1) |->
        LET members == {j \in DOMAIN labels : labels[j] = c}
        IN  [t \in 0..(h - 1) |->
                SumOver([j \in members |-> X[j + 1][t]], members)
                    \div Cardinality(members)]]

\* kmeans.inertia_ of the fit with k clusters made in random state rng
KMeansInertia(k, rng) == [n_clusters |-> k, random_state |-> rng]

\* KneeLocator(k_values, inertia_values, ...).knee: one of the candidates, or
\* None when the curve shows no knee.  Of a long list the candidates taken are
\* the first and the last three, which lie on both sides of knee + 2 >= kmax.
KneeOutcomes(k_values) ==
    {k_values[i] : i \in {j \in DOMAIN k_values : j = 1 \/ j > Len(k_values) - 3}}
        \cup {None}

\* ---------------------------------------------------------------- properties
\* variant: only a negative horizon_length is rejected
horizon_length_rejects_Negative(value) == value < 0

\* horizon_length.setter: if value <= 0: raise ValueError
horizon_length_rejects(value) == value <= 0

\* horizon_length (the property getter)
get_horizon_length == _horizon_length

\* ---------------------------------------------------------------- reshaping
\* raw_data[i:j].reset_index(drop=True): samples i..j-1 (counted from 0),
\* re-indexed from 0
Slice(raw, i, j) == [t \in 0..(j - i - 1) |-> raw[i + t + 1]]

\* variant: the loop stops one step early when the series ends on a day boundary
LoopContinues_Strict(j, len) == j < len

\* while j <= len(raw_data)
LoopContinues(j, len) == j <= len

RECURSIVE DailyLoop(_, _, _, _, _, _)
\* the while loop of generate_daily_data from the state (i, j, day, daily_data)
DailyLoop(raw, h, i, j, day, daily) ==
    IF LoopContinues(j, Len(raw))
    THEN DailyLoop(raw, h, j, j + h, day + 1, (day :> Slice(raw, i, j)) @@ daily)
    ELSE daily

\* the loop never ends: j starts at horizon_length <= 0 <= len(raw_data) and
\* does not grow
LoopDiverges(h) == h <= 0

\* generate_daily_data with horizon_length h > 0: a frame with the columns of
\* day_list, empty until the loop fills them
generate_daily_data(raw, h, day_list) ==
    DailyLoop(raw, h, 0, h, 1, [d \in Range(day_list) |-> <<>>])

\* reconfigure_raw_data on the price column of raw_data
reconfigure_raw_data(raw, h) ==
    IF h = 0
    THEN [err |-> "ZeroDivisionError", daily_data |-> <<>>]
    ELSE IF LoopDiverges(h)
    THEN [err |-> "hangs", daily_data |-> <<>>]
    ELSE [err |-> "none",
          daily_data |-> generate_daily_data(raw, h, RangeSet(Len(raw) \div h))]

\* ---------------------------------------------------------------- cluster count
\* the k values fitted before KMeans rejects one (all of them when none is rejected)
RECURSIVE FittedPrefix(_, _)
FittedPrefix(n_samples, k_values) ==
    IF k_values = <<>> \/ KMeansRejects(n_samples, Head(k_values))
    THEN <<>>
    ELSE <<Head(k_values)>> \o FittedPrefix(n_samples, Tail(k_values))

\* the random state in which fit number i (from 1) of a call is made
FitState(seed, i) == (np_random_seed(seed) + i - 1) % RngStates

\* get_optimal_n_clusters(daily_data, kmin, kmax) on daily data of n_samples
\* days; knee is what KneeLocator finds
get_optimal_n_clusters(n_samples, seed, kmin_arg, kmax_arg, knee) ==
    LET kmin     == IF kmin_arg = None THEN DefaultKmin ELSE kmin_arg
        kmax     == IF kmax_arg = None THEN DefaultKmax ELSE kmax_arg
        w0       == IF kmax_arg = None THEN <<"kmax was not set">> ELSE <<>>
        k_values == [i \in 1..(kmax - kmin) |-> kmin + i - 1]
        fitted   == FittedPrefix(n_samples, k_values)
        inertia  == [i \in 1..Len(fitted) |-> KMeansInertia(fitted[i], FitState(seed, i))]
        rng      == FitState(seed, Len(fitted) + 1)
        res(e, n, w) == [err |-> e, n_clusters |-> n, inertia_values |-> inertia,
                         fitted |-> fitted, k_values |-> k_values, warnings |-> w,
                         np_random |-> rng]
    IN  IF Len(fitted) < Len(k_values)
        THEN res("ValueError", None, w0)
        ELSE IF k_values = <<>>
        THEN res("ValueError", None, w0)
        ELSE IF knee = None
        THEN res("TypeError", None, w0)
        ELSE IF knee + 2 >= kmax
        THEN res("none", knee, w0 \o <<"close to kmax">>)
        ELSE res("none", knee, w0)

\* ---------------------------------------------------------------- clustering
\* the hours the snapping loop visits
SnappedHours == 0..(SnapHours - 1)

\* if centroids[d][t] < 1e-4: centroids[d][t] = 0, for the visited hours
Snap(centroid, h) ==
    [t \in 0..(h - 1) |->
        IF t \in SnappedHours /\ centroid[t] < SnapThreshold THEN 0 ELSE centroid[t]]

\* weights_counter: for each cluster the number of labels equal to it
WeightsCounter(labels, k) ==
    [c \in 0..(k - 1) |-> Cardinality({j \in DOMAIN labels : labels[j] = c})]

\* cluster_lmp_data(raw_data, n_clusters, scenarios) in random state rng
cluster_lmp_data(raw, h, n_clusters, rng) ==
    LET r         == reconfigure_raw_data(raw, h)
        X         == r.daily_data
        labels    == KMeansLabels(X, n_clusters, rng)
        centroids == KMeansCenters(X, h, n_clusters, labels)
        counter   == WeightsCounter(labels, n_clusters)
        none      == [lmp_data |-> <<>>, weights |-> <<>>, labels |-> <<>>]
    IN  IF r.err # "none"
        THEN [err |-> r.err, value |-> none, np_random |-> rng]
        ELSE IF KMeansRejects(Cardinality(DOMAIN X), n_clusters)
        THEN [err |-> "ValueError", value |-> none, np_random |-> rng]
        ELSE IF h < SnapHours
        THEN [err |-> "IndexError", value |-> none, np_random |-> np_random_next(rng)]
        ELSE [err |-> "none",
              value |-> [lmp_data |-> [d \in 1..n_clusters |-> Snap(centroids[d - 1], h)],
                         weights  |-> (0 :> [d \in 1..n_clusters |-> counter[d - 1]]),
                         labels   |-> labels],
              np_random |-> np_random_next(rng)]

\* ---------------------------------------------------------------- actions
\* PriceTakerModel.__init__(seed, horizon_length): both stored as given
ConstructPrice ==
    /\ price_pc = "new"
    /\ \E s \in SeedInputs, h \in HorizonInputs :
           /\ _seed' = s
           /\ _horizon_length' = h
           /\ ret' = Outcome("__init__", [seed |-> s, horizon_length |-> h], "none", <<>>)
    /\ price_pc' = "constructed"
    /\ UNCHANGED <<raw_data, np_random>>
    /\ UNCHANGED multiVars
    /\ UNCHANGED lmpVars

\* m.seed = value
SetSeed ==
    /\ price_pc = "constructed"
    /\ \E value \in SeedInputs :
           /\ _seed' = value
           /\ ret' = Outcome("seed.setter", [value |-> value], "none", <<>>)
    /\ UNCHANGED <<price_pc, _horizon_length, raw_data, np_random>>
    /\ UNCHANGED multiVars
    /\ UNCHANGED lmpVars

\* m.horizon_length = value
SetHorizonLength ==
    /\ price_pc = "constructed"
    /\ \E value \in HorizonInputs :
           IF horizon_length_rejects(value)
           THEN /\ ret' = Outcome("horizon_length.setter", [value |-> value],
                                  "ValueError", <<>>)
                /\ UNCHANGED _horizon_length
           ELSE /\ _horizon_length' = value
                /\ ret' = Outcome("horizon_length.setter", [value |-> value], "none", <<>>)
    /\ UNCHANGED <<price_pc, _seed, raw_data, np_random>>
    /\ UNCHANGED multiVars
    /\ UNCHANGED lmpVars

\* m.reconfigure_raw_data(raw_data)
ReconfigureRawData ==
    /\ price_pc = "constructed"
    /\ LET r == reconfigure_raw_data(raw_data, _horizon_length)
       IN  /\ ret' = Outcome("reconfigure_raw_data",
                             [horizon_length |-> _horizon_length], r.err, r.daily_data)
           /\ price_pc' = IF r.err = "hangs" THEN "hangs" ELSE price_pc
    /\ UNCHANGED <<_seed, _horizon_length, raw_data, np_random>>
    /\ UNCHANGED multiVars
    /\ UNCHANGED lmpVars

\* the candidates kmin..kmax-1 of a call, None standing for the default
Candidates(kmin, kmax) ==
    LET lo == IF kmin = None THEN DefaultKmin ELSE kmin
        hi == IF kmax = None THEN DefaultKmax ELSE kmax
    IN  [i \in 1..(hi - lo) |-> lo + i - 1]

\* m.get_optimal_n_clusters(daily_data, kmin, kmax) on the reshaped series;
\* KneeLocator has a say only when every fit was made
GetOptimalNClusters ==
    /\ price_pc = "constructed"
    /\ _horizon_length > 0
    /\ \E kmin \in KminInputs, kmax \in KmaxInputs :
         LET n == Len(raw_data) \div _horizon_length
             c == Candidates(kmin, kmax)
         IN  \E knee \in IF FittedPrefix(n, c) = c THEN KneeOutcomes(c) ELSE {None} :
               LET r == get_optimal_n_clusters(n, _seed, kmin, kmax, knee)
               IN  /\ ret' = Outcome("get_optimal_n_clusters",
                                     [kmin |-> kmin, kmax |-> kmax, n_days |-> n],
                                     r.err,
                                     [n_clusters |-> r.n_clusters,
                                      inertia_values |-> r.inertia_values,
                                      fitted |-> r.fitted, warnings |-> r.warnings])
                   /\ np_random' = r.np_random
    /\ UNCHANGED <<price_pc, _seed, _horizon_length, raw_data>>
    /\ UNCHANGED multiVars
    /\ UNCHANGED lmpVars

\* m.cluster_lmp_data(raw_data, n_clusters, scenarios)
ClusterLmpData ==
    /\ price_pc = "constructed"
    /\ \E n_clusters \in ClusterCounts :
         LET r == cluster_lmp_data(raw_data, _horizon_length, n_clusters, np_random)
             a == [n_clusters |-> n_clusters, horizon_length |-> _horizon_length,
                   seed |-> _seed]
         IN  /\ ret' = Outcome("cluster_lmp_data", a, r.err, r.value)
             /\ np_random' = r.np_random
             /\ price_pc' = IF r.err = "hangs" THEN "hangs" ELSE price_pc
    /\ UNCHANGED <<_seed, _horizon_length, raw_data>>
    /\ UNCHANGED multiVars
    /\ UNCHANGED lmpVars

\* any other code of the process draws from, or reseeds, numpy's generator
OtherRandomUse ==
    /\ price_pc = "constructed"
    /\ \E rng \in 0..(RngStates - 1) : rng # np_random /\ np_random' = rng
    /\ UNCHANGED <<price_pc, _seed, _horizon_length, raw_data, ret>>
    /\ UNCHANGED multiVars
    /\ UNCHANGED lmpVars

\* no MultiPeriodModel is made; the raw series and the random state are given
InitPrice ==
    /\ args \in {a \in MultiArgs : a.n_time_points = 1 /\ ~a.has_periodic
                                   /\ a.nLinkPairs = 0 /\ a.nPeriodicPairs = 0}
    /\ MultiNew
    /\ PriceNew
    /\ LmpNew
    /\ raw_data \in RawInputs
    /\ np_random \in 0..(RngStates - 1)

NextPrice ==
    \/ ConstructPrice
    \/ SetSeed
    \/ SetHorizonLength
    \/ ReconfigureRawData
    \/ GetOptimalNClusters
    \/ ClusterLmpData
    \/ OtherRandomUse

SpecPrice == InitPrice /\ [][NextPrice]_vars

\* ---------------------------------------------------------------- price data and the period model
\* the number of time points of a representative day when horizon_length is None
DefaultTimePoints == 24

\* column_name: one column heading, or a list of year labels k, .., 1
ColumnInputs == {[list |-> FALSE, years |-> <<>>]} \cup
                {[list |-> TRUE, years |-> [i \in 1..k |-> k + 1 - i]] : k \in 0..MaxAxis}

\* n_clusters of append_lmp_data: None, or a cluster count
NClustersInputs == {None} \cup ClusterCounts

\* horizon_length of append_lmp_data: None, or a number of time points
HorizonArgInputs == {None, 2, SnapHours + 2}

\* the price series of the sheet: empty, or MaxDays days of 24 samples
SheetInputs == {r \in RawInputs : Len(r) \in {0, MaxDays * SnapHours}}

\* an attribute of the PriceTakerModel that holds the ordered collection seq
IsSet(seq) == [given |-> TRUE, seq |-> seq]

\* the hours of day 1 the fill loop writes before lmp_data[d][t] has no hour t
FilledBeforeKeyError(time, lmp_data) ==
    {t \in Range(time) : \A u \in 1..t : u \in DOMAIN lmp_data[1]}

\* self.set_time of the single-signal representative-day branch
SingleSignalTime(n) == RangeSet(n - 1)

\* append_lmp_data(column_name, n_clusters, horizon_length) on the sheet whose
\* price column (and every year column) is full_data, for a model with
\* _horizon_length h in random state rng: the attributes it assigns, the exception
append_lmp_data(col, n_clusters, horizon_length, full_data, h, rng) ==
    LET n    == IF horizon_length # None THEN horizon_length ELSE DefaultTimePoints
        days == RangeSet(IF n_clusters = None THEN 0 ELSE n_clusters)
        out(e, ntp, time, d, y, lmp, w, g) ==
            [err |-> e, n_time_points |-> ntp, set_time |-> time, set_days |-> d,
             set_years |-> y, LMP |-> lmp, WEIGHTS |-> w, np_random |-> g]
    IN  IF col.list /\ n_clusters # None
        THEN \* full_data[year] is a Series: reconfigure_raw_data reads its .columns
             out(IF col.years = <<>> THEN "none" ELSE "AttributeError",
                 n, RangeSet(n), IsSet(days), IsSet(col.years), <<>>, <<>>, rng)
        ELSE IF col.list
        THEN LET time == RangeSet(Len(full_data))
             IN  out("none", Len(full_data), time, NotSet, IsSet(col.years),
                     [k \in {<<t, y>> : t \in Range(time), y \in Range(col.years)}
                         |-> full_data[k[1]]],
                     <<>>, rng)
        ELSE IF n_clusters # None
        THEN LET time == SingleSignalTime(n)
                 r    == cluster_lmp_data(full_data, h, n_clusters, rng)
                 lmp  == r.value.lmp_data
                 w    == r.value.weights
                 fill == FilledBeforeKeyError(time, lmp)
             IN  IF r.err # "none"
                 THEN out(r.err, n, time, IsSet(days), NotSet, <<>>, <<>>, r.np_random)
                 ELSE IF fill # Range(time)
                 THEN out("KeyError", n, time, IsSet(days), NotSet,
                          [k \in {<<t, 1>> : t \in fill} |-> lmp[1][k[1]]],
                          IF fill = {} THEN <<>> ELSE (<<1>> :> w[0][1]),
                          r.np_random)
                 ELSE out("none", n, time, IsSet(days), NotSet,
                          [k \in {<<t, d>> : t \in Range(time), d \in Range(days)}
                              |-> lmp[k[2]][k[1]]],
                          [k \in {<<d>> : d \in {e \in Range(days) : time # <<>>}}
                              |-> w[0][k[1]]],
                          r.np_random)
        ELSE LET time == RangeSet(Len(full_data))
             IN  out("none", Len(full_data), time, NotSet, NotSet,
                     [k \in {<<t>> : t \in Range(time)} |-> full_data[k[1]]],
                     <<>>, rng)

\* m.append_lmp_data(file_path, file_name, sheet, column_name, n_clusters,
\* horizon_length), called once on a model; raw_data is the sheet's price series
AppendLmpData ==
    /\ price_pc = "constructed"
    /\ lmp_pc = "none"
    /\ \E col \in ColumnInputs, n_clusters \in NClustersInputs,
          horizon_length \in HorizonArgInputs :
         LET r == append_lmp_data(col, n_clusters, horizon_length, raw_data,
                                  _horizon_length, np_random)
             a == [column_name |-> col, n_clusters |-> n_clusters,
                   horizon_length |-> horizon_length]
         IN  /\ ret' = Outcome("append_lmp_data", a, r.err, <<>>)
             /\ lmp_pc' = IF r.err = "none" THEN "appended" ELSE "append_raised"
             /\ price_pc' = IF r.err = "hangs" THEN "hangs" ELSE price_pc
             /\ _n_time_points' = r.n_time_points
             /\ pt_set_time' = r.set_time
             /\ pt_set_days' = r.set_days
             /\ pt_set_years' = r.set_years
             /\ LMP' = r.LMP
             /\ WEIGHTS' = r.WEIGHTS
             /\ np_random' = r.np_random
    /\ UNCHANGED <<_seed, _horizon_length, raw_data>>
    /\ UNCHANGED multiVars

\* the arguments build_multiperiod_model passes to MultiPeriodModel; the two
\* lifecycle callbacks come with **kwargs
PeriodModelArgs(has_init, has_unfix) ==
    [n_time_points |-> _n_time_points, use_stochastic_build |-> TRUE,
     has_periodic |-> FALSE, nLinkPairs |-> 1, nPeriodicPairs |-> 0,
     days_given |-> pt_set_days.given, days |-> pt_set_days.seq,
     years_given |-> pt_set_years.given, years |-> pt_set_years.seq,
     scenarios_given |-> FALSE, scenarios |-> <<>>,
     has_init |-> has_init, has_unfix |-> has_unfix]

\* m.build_multiperiod_model(**kwargs): self.mp_model = MultiPeriodModel(...);
\* before append_lmp_data the attributes it reads do not exist
BuildMultiperiodModel ==
    /\ price_pc = "constructed"
    /\ pc = "new"
    /\ UNCHANGED <<price_pc, _seed, _horizon_length, raw_data, np_random>>
    /\ UNCHANGED lmpVars
    /\ IF lmp_pc = "none"
       THEN /\ ret' = Outcome("build_multiperiod_model", <<>>, "AttributeError", <<>>)
            /\ UNCHANGED multiVars
       ELSE \E has_init \in BOOLEAN, has_unfix \in BOOLEAN :
              /\ args' = PeriodModelArgs(has_init, has_unfix)
              /\ MultiPeriodModel__init__(args')
              /\ ret' = Outcome("build_multiperiod_model", <<>>, err', <<>>)

\* a PriceTakerModel with the default seed, not yet given its price data
InitLmp ==
    /\ args \in {a \in MultiArgs : a.n_time_points = 1 /\ ~a.has_periodic
                                   /\ a.nLinkPairs = 0 /\ a.nPeriodicPairs = 0}
    /\ MultiNew
    /\ PriceNew
    /\ LmpNew
    /\ raw_data \in SheetInputs
    /\ np_random = 0

NextLmp ==
    \/ ConstructPrice
    \/ AppendLmpData
    \/ BuildMultiperiodModel

SpecLmp == InitLmp /\ [][NextLmp]_vars

\* ================================================================ claims
\* the rolling-horizon model is built and every advance_time call so far returned
BuiltAndRunning == pyomo_model = "self" /\ ~advance_raised

\* the link container on block src holds exactly the pairs of
\* linking_pairs(src, tgt), indexed 0..len-1
HoldsLink(comp, src, tgt) ==
    LET pairs == get_linking_variable_pairs(src, tgt)
    IN  /\ comp.exists
        /\ DOMAIN comp.cons = 0..(Len(pairs) - 1)
        /\ \A i \in DOMAIN comp.cons : comp.cons[i] = pairs[i + 1]

\* sequential links of the rolling-horizon model: one container per adjacent
\* pair of TIME, on the earlier block, and none on the last block
RollingLinked ==
    /\ \A i \in 1..(Len(TIME) - 1) :
           /\ TIME[i] \in DOMAIN blocks
           /\ HoldsLink(blocks[TIME[i]].link_constraints, TIME[i], TIME[i + 1])
    /\ Cardinality({t \in DOMAIN blocks : blocks[t].link_constraints.exists})
           = Len(TIME) - 1

\* sequential links of the stochastic build: one container per adjacent pair of
\* set_period in every scenario, on the earlier period block
StochasticLinked ==
    \A sc \in Range(ScenarioModels(stochastic_model, set_scenarios)) :
        \A i \in 1..(Len(set_period) - 1) :
            /\ <<sc, set_period[i]>> \in DOMAIN period
            /\ HoldsLink(period[<<sc, set_period[i]>>].link_constraints,
                         set_period[i], set_period[i + 1])

\* C1 (as claimed): after a build and any number of advance_time calls, every
\* adjacent pair of period indices of a scenario's sequence has exactly one
\* sequential link container on the earlier block, holding
\* len(linking_pairs(source, target)) constraints indexed 0..len-1; for
\* build_multi_period_model and for the stochastic build alike.
C1_SequentialLinksEverywhere ==
    /\ BuiltAndRunning => RollingLinked
    /\ (args.use_stochastic_build /\ pc = "constructed") => StochasticLinked

\* the part of C1 the code keeps: the rolling-horizon build and advance_time
C1_RollingLinks == BuiltAndRunning => RollingLinked

C1_RollingLinks_Witness ==
    /\ BuiltAndRunning
    /\ n_time_points = 3
    /\ Len(TIME) = 5
    /\ args.nLinkPairs = 1

\* indices whose block holds a periodic container / an active one
PeriodicAt == {t \in DOMAIN blocks : blocks[t].periodic_constraints.exists}

ActivePeriodicAt == {t \in PeriodicAt : blocks[t].periodic_constraints.active}

AdvanceReturns ==
    /\ pyomo_model = "self"
    /\ calls'.op = "advance_time"
    /\ err' = "none"
    /\ TIME' # TIME

\* C3: each successful advance_time moves current_time to the next index of
\* TIME, deactivates the block at the old current_time and keeps it with all
\* it holds, and appends exactly one new period, at index old last + 1.
C3_AdvanceShiftsByOne ==
    [][AdvanceReturns =>
        LET old == first_active_time
            new == LastTime(TIME) + 1
        IN  /\ first_active_time' = TIME[Position(TIME, old) + 1]
            /\ old \in DOMAIN blocks'
            /\ blocks'[old] = [blocks[old] EXCEPT !.active = FALSE]
            /\ blocks[old].process /\ blocks[old].active
            /\ TIME' = Append(TIME, new)
            /\ new \notin DOMAIN blocks
            /\ blocks'[new].process /\ blocks'[new].active
            /\ {t \in DOMAIN blocks' : blocks'[t].process}
                   = {t \in DOMAIN blocks : blocks[t].process} \cup {new}
    ]_vars

\* active window of the rolling-horizon model
ActiveWindow == {t \in DOMAIN blocks : blocks[t].process /\ blocks[t].active}

C3_Witness ==
    /\ pyomo_model = "self"
    /\ calls.op = "advance_time"
    /\ err = "none"
    /\ n_time_points = 3
    /\ TIME = <<0, 1, 2, 3>>
    /\ first_active_time = 1
    /\ ActiveWindow = {1, 2, 3}
    /\ blocks[0].process /\ ~blocks[0].active

\* C4: over advance_time calls current_time never decreases, TIME and the
\* blocks only grow, and a deactivated block is never reactivated.
C4_ForwardOnly ==
    [][pyomo_model = "self" =>
        /\ first_active_time' >= first_active_time
        /\ Len(TIME') >= Len(TIME)
        /\ SubSeq(TIME', 1, Len(TIME)) = TIME
        /\ \A t \in DOMAIN blocks :
               /\ t \in DOMAIN blocks'
               /\ blocks[t].process => blocks'[t].process
               /\ (blocks[t].process /\ ~blocks[t].active) => ~blocks'[t].active
    ]_vars

C4_Witness ==
    /\ pyomo_model = "self"
    /\ first_active_time = 2
    /\ Len(TIME) > n_time_points + 1
    /\ ~blocks[0].active /\ ~blocks[1].active

\* the most recent call was build_multi_period_model with a kwargs dict whose
\* key set is not exactly 0..n_time_points-1
BuiltWithWrongKeys ==
    /\ calls.op = "build_multi_period_model"
    /\ ~calls.kwargs.none
    /\ calls.kwargs.keys # 0..(n_time_points - 1)

\* C5 (as claimed): build_multi_period_model with a kwargs key set other than
\* 0..n_time_points-1 aborts before the factory is called for any period.
C5_WrongKeysAbortBeforeFactory ==
    BuiltWithWrongKeys => (err # "none" /\ calls.factory = 0)

\* the model was never built: build_multi_period_model has not completed
Unbuilt == pc = "constructed" /\ pyomo_model = "None"

\* C6: advance_time on a model whose build has not completed raises, calls
\* neither the factory nor a linking function, and changes nothing:
\* pyomo_model and current_time stay None.
C6_AdvanceBeforeBuildFails ==
    [][(Unbuilt /\ calls'.op = "advance_time") =>
        /\ err' = "AttributeError"
        /\ calls'.factory = 0 /\ calls'.link = 0 /\ calls'.periodic = 0
        /\ pyomo_model' = "None" /\ first_active_time' = None
        /\ first_active_time = None
        /\ UNCHANGED <<TIME, blocks>>
        /\ UNCHANGED stochVars
    ]_vars

C6_Witness ==
    /\ Unbuilt
    /\ calls.op = "advance_time"
    /\ err = "AttributeError"
    /\ TIME = <<>>
    /\ first_active_time = None

\* the most recent call was a build that raised
BuildRaised == calls.op = "build_multi_period_model" /\ err # "none"

\* C7: a build that aborts (kwargs validation, a raising factory or linking
\* function) leaves pyomo_model and current_time None, and an advance_time
\* that follows raises without touching the partially built blocks.
C7_AbortedBuildNotReady ==
    /\ [](BuildRaised => (pyomo_model = "None" /\ first_active_time = None))
    /\ [][(BuildRaised /\ calls'.op = "advance_time") =>
            (err' # "none" /\ blocks' = blocks /\ TIME' = TIME
             /\ calls'.factory = 0 /\ calls'.link = 0 /\ calls'.periodic = 0)]_vars

C7_Witness ==
    /\ calls.op = "advance_time"
    /\ err # "none"
    /\ pyomo_model = "None"
    /\ \E t \in DOMAIN blocks : blocks[t].process
    /\ \E t \in DOMAIN blocks : ~blocks[t].process

\* size of an axis: its number of labels, 1 when the axis is absent
AxisSize(given, labels) == IF given THEN Len(labels) ELSE 1

\* calls of the process-model factory on period blocks made by the stochastic build
PeriodFactoryCalls ==
    {i \in 1..Len(trace) : trace[i].op = "create_process_model"
                           /\ trace[i].s # SeedInstance}

\* C8: the stochastic build creates n_time_points x |days| x |years| x
\* |scenarios| period blocks (an absent axis counts 1), one factory call each;
\* build_multi_period_model creates n_time_points blocks.
C8_BlockCount ==
    /\ (args.use_stochastic_build /\ pc # "new") =>
           LET expected == args.n_time_points
                             * AxisSize(args.days_given, args.days)
                             * AxisSize(args.years_given, args.years)
                             * AxisSize(args.scenarios_given, args.scenarios)
           IN  /\ Cardinality(DOMAIN period) = expected
               /\ Cardinality(PeriodFactoryCalls) = expected
    /\ (pyomo_model = "self" /\ calls.op = "build_multi_period_model") =>
           /\ Cardinality({t \in DOMAIN blocks : blocks[t].process}) = n_time_points
           /\ calls.factory = n_time_points

C8_Witness ==
    /\ args.use_stochastic_build /\ pc = "constructed"
    /\ args.n_time_points = 2
    /\ args.days_given /\ Len(args.days) = 2
    /\ ~args.years_given
    /\ args.scenarios_given /\ Len(args.scenarios) = 2
    /\ Cardinality(DOMAIN period) = 8

\* (year, day, time) positions of a period index in the input collections,
\* 0 for an absent axis
OrderKey(p) ==
    IF multiyear /\ multiple_days
    THEN <<Position(args.years, p[3]), Position(args.days, p[2]), p[1]>>
    ELSE IF multiyear THEN <<Position(args.years, p[2]), 0, p[1]>>
    ELSE IF multiple_days THEN <<0, Position(args.days, p[2]), p[1]>>
    ELSE <<0, 0, p[1]>>

LexLess(a, b) ==
    \/ a[1] < b[1]
    \/ a[1] = b[1] /\ a[2] < b[2]
    \/ a[1] = b[1] /\ a[2] = b[2] /\ a[3] < b[3]

\* every combination of the given axes
AllCombinations ==
    LET T == 1..args.n_time_points
    IN  IF multiyear /\ multiple_days
        THEN {<<t, d, y>> : t \in T, d \in Range(args.days), y \in Range(args.years)}
        ELSE IF multiyear THEN {<<t, y>> : t \in T, y \in Range(args.years)}
        ELSE IF multiple_days THEN {<<t, d>> : t \in T, d \in Range(args.days)}
        ELSE {<<t>> : t \in T}

\* C9: set_period lists the cross product with year outermost, then day, then
\* time innermost: an index with the smaller (year, day, time) position comes
\* first, and every combination appears exactly once.
C9_PeriodOrder ==
    (args.use_stochastic_build /\ pc # "new") =>
        /\ \A i, j \in 1..Len(set_period) :
               i < j => LexLess(OrderKey(set_period[i]), OrderKey(set_period[j]))
        /\ Range(set_period) = AllCombinations
        /\ Len(set_period) = Cardinality(AllCombinations)

C9_Witness ==
    /\ args.use_stochastic_build /\ pc = "constructed"
    /\ args.n_time_points = 2
    /\ args.days = <<2, 1>>
    /\ args.years = <<2, 1>>
    /\ set_period[1] = <<1, 2, 2>>
    /\ set_period[3] = <<1, 1, 2>>
    /\ Len(set_period) = 8

\* C10: a seed solve that does not terminate optimally makes the stochastic
\* build raise; the snapshot is applied to no period block and the unfix
\* callback is called on none.
C10_NonOptimalSeedAborts ==
    (seed_result \notin {"unsolved", "optimal"}) =>
        /\ pc = "init_raised"
        /\ err = "AssertionError"
        /\ \A i \in 1..Len(trace) : trace[i].op \notin {"from_json", "unfix_dof_func"}
        /\ \A b \in DOMAIN period : ~period[b].initialized /\ ~period[b].unfixed

C10_Witness ==
    /\ seed_result = "infeasible"
    /\ pc = "init_raised"
    /\ args.has_unfix
    /\ Cardinality(DOMAIN period) >= 4
    /\ trace[Len(trace)].op = "solve"

\* ---------------------------------------------------------------- lifecycle order
\* positions of the calls of op in the trace of the stochastic build
CallsOf(op) == {i \in 1..Len(trace) : trace[i].op = op}

\* positions of the calls of op made on period block b = (scenario, index)
CallsOn(op, b) == {i \in CallsOf(op) : trace[i].s = b[1] /\ trace[i].p = b[2]}

\* every position of I comes before every position of J
AllBefore(I, J) == \A i \in I, j \in J : i < j

\* the stochastic build ran with both callbacks and an optimal seed solve
FullLifecycle ==
    /\ args.use_stochastic_build /\ pc # "new"
    /\ args.has_init /\ args.has_unfix
    /\ seed_result = "optimal"

\* C11: with both callbacks and an optimal seed solve the build keeps one
\* order: the initializer runs exactly once, on the throwaway instance and on no
\* period block; then the instance is solved, then its state is snapshotted,
\* then the snapshot is applied once to every period block of every scenario,
\* and only after the last application the unfix callback runs, once on every
\* period block of every scenario.
C11_LifecycleOrder ==
    FullLifecycle =>
        /\ pc = "constructed"
        /\ Cardinality(CallsOf("initialization_func")) = 1
        /\ \A i \in CallsOf("initialization_func") : trace[i].s = SeedInstance
        /\ Cardinality(CallsOf("solve")) = 1
        /\ Cardinality(CallsOf("to_json")) = 1
        /\ AllBefore(CallsOf("create_process_model"), CallsOf("initialization_func"))
        /\ AllBefore(CallsOf("initialization_func"), CallsOf("solve"))
        /\ AllBefore(CallsOf("solve"), CallsOf("to_json"))
        /\ AllBefore(CallsOf("to_json"), CallsOf("from_json"))
        /\ AllBefore(CallsOf("from_json"), CallsOf("unfix_dof_func"))
        /\ \A b \in DOMAIN period :
               /\ Cardinality(CallsOn("from_json", b)) = 1
               /\ Cardinality(CallsOn("unfix_dof_func", b)) = 1
               /\ period[b].initialized /\ period[b].unfixed
        /\ Cardinality(CallsOf("from_json")) = Cardinality(DOMAIN period)
        /\ Cardinality(CallsOf("unfix_dof_func")) = Cardinality(DOMAIN period)

C11_Witness ==
    /\ FullLifecycle
    /\ args.scenarios_given /\ Len(set_scenarios) = 2
    /\ Len(set_period) >= 2
    /\ Cardinality(CallsOf("unfix_dof_func")) = 2 * Len(set_period)
    /\ trace[Len(trace)].op = "unfix_dof_func"

\* the period blocks the stochastic build has to create
ExpectedBlocks ==
    {<<sc, p>> : sc \in Range(ScenarioModels(args.scenarios_given, PyoSet(args.scenarios))),
                 p \in Range(set_period)}

\* every period block was built, by one factory call each
AllBlocksBuilt ==
    /\ DOMAIN period = ExpectedBlocks
    /\ \A b \in ExpectedBlocks : Cardinality(CallsOn("create_process_model", b)) = 1

\* C12: a missing callback is reported and is not fatal.  Without an
\* initializer every period block is still built, no seed instance is made or
\* solved, no snapshot is applied and the unfix callback is not called, even
\* when one is supplied.  With an initializer and no unfix callback (the seed
\* solve being optimal, so that the build gets that far) every period block
\* receives the snapshot and none is unfixed.
C12_MissingCallbackStopsEarly ==
    (args.use_stochastic_build /\ pc # "new") =>
        /\ ~args.has_init =>
               /\ pc = "constructed"
               /\ AllBlocksBuilt
               /\ \A i \in 1..Len(trace) : trace[i].s # SeedInstance
               /\ CallsOf("from_json") = {} /\ CallsOf("unfix_dof_func") = {}
               /\ \A b \in DOMAIN period : ~period[b].initialized /\ ~period[b].unfixed
               /\ trace[Len(trace)] = Warning("initialization_func")
               /\ Cardinality(CallsOf("print_warning")) = 1
        /\ (args.has_init /\ ~args.has_unfix /\ seed_result = "optimal") =>
               /\ pc = "constructed"
               /\ AllBlocksBuilt
               /\ \A b \in DOMAIN period :
                      /\ Cardinality(CallsOn("from_json", b)) = 1
                      /\ period[b].initialized /\ ~period[b].unfixed
               /\ CallsOf("unfix_dof_func") = {}
               /\ trace[Len(trace)] = Warning("unfix_dof_func")
               /\ Cardinality(CallsOf("print_warning")) = 1

C12_Witness ==
    /\ args.use_stochastic_build /\ pc = "constructed"
    /\ ~args.has_init /\ args.has_unfix
    /\ Cardinality(DOMAIN period) = 4
    /\ seed_result = "unsolved"
    /\ trace[Len(trace)].op = "print_warning"

C12_NoUnfix_Witness ==
    /\ args.use_stochastic_build /\ pc = "constructed"
    /\ args.has_init /\ ~args.has_unfix
    /\ Cardinality(DOMAIN period) = 4
    /\ \A b \in DOMAIN period : period[b].initialized /\ ~period[b].unfixed
    /\ trace[Len(trace)] = Warning("unfix_dof_func")

\* ---------------------------------------------------------------- one advance_time step
\* container comp holds n constraints, indexed 0..n-1, each joining src to tgt
JoinsExactly(comp, n, src, tgt) ==
    /\ comp.exists
    /\ DOMAIN comp.cons = 0..(n - 1)
    /\ \A i \in DOMAIN comp.cons : comp.cons[i].src = src /\ comp.cons[i].tgt = tgt

\* a step of advance_time on the built model in which the periodic function raised
PeriodicRaises ==
    /\ pyomo_model = "self"
    /\ calls'.op = "advance_time"
    /\ calls'.periodic = 1
    /\ err' = "CallbackError"

\* C18: in each advance_time the new sequential link goes from the pre-shift
\* last block to the new block and is attached to the pre-shift last block;
\* with periodic coupling the new periodic link goes from the new block to the
\* post-shift first active block and is attached to the new block, and only
\* after it exists is the periodic container on the pre-shift last block
\* deactivated (a periodic function that raises leaves the old one active).
C18_AdvanceLinkEnds ==
    [][LET last == LastTime(TIME)
           new  == last + 1
       IN  /\ AdvanceReturns =>
                /\ ~blocks[last].link_constraints.exists
                /\ JoinsExactly(blocks'[last].link_constraints, args.nLinkPairs, last, new)
                /\ blocks'[last].link_constraints.active
                /\ ~blocks'[new].link_constraints.exists
                /\ args.has_periodic =>
                       /\ JoinsExactly(blocks'[new].periodic_constraints,
                                       args.nPeriodicPairs, new, first_active_time')
                       /\ blocks'[new].periodic_constraints.active
                       /\ first_active_time' = NextTime(TIME, first_active_time)
                       /\ blocks[last].periodic_constraints.active
                       /\ blocks'[last].periodic_constraints.exists
                       /\ ~blocks'[last].periodic_constraints.active
           /\ PeriodicRaises =>
                /\ blocks'[last].periodic_constraints = blocks[last].periodic_constraints
                /\ JoinsExactly(blocks'[last].link_constraints, args.nLinkPairs, last, new)
                /\ ~blocks'[new].periodic_constraints.exists
    ]_vars

C18_Witness ==
    /\ pyomo_model = "self"
    /\ calls.op = "advance_time" /\ err = "none"
    /\ args.has_periodic /\ args.nLinkPairs = 1 /\ args.nPeriodicPairs = 1
    /\ TIME = <<0, 1, 2, 3>>
    /\ first_active_time = 1
    /\ blocks[2].link_constraints.cons[0] = [src |-> 2, tgt |-> 3, k |-> 1]
    /\ blocks[3].periodic_constraints.cons[0] = [src |-> 3, tgt |-> 1, k |-> 1]
    /\ blocks[3].periodic_constraints.active
    /\ ~blocks[2].periodic_constraints.active

C18_PeriodicRaises_Witness ==
    /\ pyomo_model = "self"
    /\ calls.op = "advance_time" /\ calls.periodic = 1 /\ err = "CallbackError"
    /\ TIME = <<0, 1, 2, 3>>
    /\ blocks[2].periodic_constraints.active
    /\ blocks[2].link_constraints.exists

\* C19: advance_time leaves every link that existed unchanged except the stale
\* periodic one.  Of the blocks that existed it touches two: the old first
\* active block, which is deactivated and keeps what it holds, and the old last
\* block, which gains its link container and has its periodic container
\* deactivated; every other block, those strictly between included, is unchanged.
C19_AdvanceFrame ==
    [][AdvanceReturns =>
        LET first == first_active_time
            last  == LastTime(TIME)
        IN  /\ first # last
            /\ DOMAIN blocks' = DOMAIN blocks \cup {last + 1}
            /\ \A t \in DOMAIN blocks \ {first, last} : blocks'[t] = blocks[t]
            /\ blocks'[first] = [blocks[first] EXCEPT !.active = FALSE]
            /\ blocks'[last].process = blocks[last].process
            /\ blocks'[last].active = blocks[last].active
            /\ \A t \in DOMAIN blocks \ {last} :
                   /\ blocks'[t].link_constraints = blocks[t].link_constraints
                   /\ blocks'[t].periodic_constraints = blocks[t].periodic_constraints
            /\ blocks'[last].periodic_constraints =
                   IF args.has_periodic
                   THEN [blocks[last].periodic_constraints EXCEPT !.active = FALSE]
                   ELSE blocks[last].periodic_constraints
            /\ blocks'[last].periodic_constraints.cons = blocks[last].periodic_constraints.cons
    ]_vars

C19_Witness ==
    /\ pyomo_model = "self"
    /\ calls.op = "advance_time" /\ err = "none"
    /\ args.has_periodic /\ args.nLinkPairs = 1
    /\ n_time_points = 3
    /\ TIME = <<0, 1, 2, 3, 4>>
    /\ first_active_time = 2
    /\ blocks[1].link_constraints.active /\ ~blocks[1].active
    /\ blocks[3].link_constraints.exists /\ blocks[2].link_constraints.active
    /\ ~blocks[3].periodic_constraints.active

InForce(t, comp) == comp.exists /\ comp.active /\ blocks[t].active

\* the blocks a container in force refers to are all active
RefersToActive(t, comp) ==
    InForce(t, comp) =>
        \A i \in DOMAIN comp.cons :
            /\ comp.cons[i].src \in DOMAIN blocks /\ blocks[comp.cons[i].src].active
            /\ comp.cons[i].tgt \in DOMAIN blocks /\ blocks[comp.cons[i].tgt].active

AdvanceRaises ==
    /\ BuiltAndRunning
    /\ calls'.op = "advance_time"
    /\ err' # "none"

\* C23 (as claimed): advance_time is atomic on failure: when it raises (no
\* index after the first active one, or the factory or a linking function
\* raises) the horizon is as before the call: no block was deactivated,
\* current_time is unchanged and TIME holds no index without a fully built and
\* linked block.
C23_AdvanceAtomicOnFailure ==
    [][AdvanceRaises =>
        /\ first_active_time' = first_active_time
        /\ TIME' = TIME
        /\ blocks' = blocks
    ]_vars

\* the part of C23 the code keeps: the call that finds no index after the
\* first active one changes nothing
C23_NoNextIndexChangesNothing ==
    [][(AdvanceRaises /\ err' = "IndexError") =>
        /\ first_active_time' = first_active_time
        /\ TIME' = TIME
        /\ blocks' = blocks
        /\ calls'.factory = 0 /\ calls'.link = 0 /\ calls'.periodic = 0
    ]_vars

C23_NoNextIndexChangesNothing_Witness ==
    /\ pyomo_model = "self"
    /\ calls.op = "advance_time" /\ err = "IndexError"
    /\ n_time_points = 1
    /\ TIME = <<0>> /\ first_active_time = 0
    /\ blocks[0].active

\* ================================================================ PriceTakerModel claims
\* the most recent call was cluster_lmp_data, asked for 1 <= k <= floor(L / h)
\* clusters of a series of L samples with horizon_length h > 0
ClusteredWithinDays ==
    /\ ret.op = "cluster_lmp_data"
    /\ ret.args.horizon_length > 0
    /\ ret.args.n_clusters >= 1
    /\ ret.args.n_clusters <= Len(raw_data) \div ret.args.horizon_length

\* the weights returned are keyed 1..k (under the frame's column 0), weight d
\* counts the days labelled d - 1, and the weights add up to floor(L / h)
WeightsCountDays ==
    LET k       == ret.args.n_clusters
        weights == ret.value.weights[0]
        labels  == ret.value.labels
    IN  /\ DOMAIN weights = 1..k
        /\ \A d \in 1..k :
               weights[d] = Cardinality({j \in DOMAIN labels : labels[j] = d - 1})
        /\ SumOver(weights, 1..k) = Len(raw_data) \div ret.args.horizon_length

\* C13 (as claimed): for every series length L, horizon_length h and cluster
\* count k with 1 <= k <= floor(L / h), cluster_lmp_data returns weights keyed
\* 1..k, weight d being the number of days assigned to cluster d, and the
\* weights sum to floor(L / h).
C13_WeightsSumToDays ==
    ClusteredWithinDays => (ret.err = "none" /\ WeightsCountDays)

\* the part of C13 the code keeps: a horizon_length of at least 24
C13_WeightsFrom24Hours ==
    (ClusteredWithinDays /\ ret.args.horizon_length >= SnapHours) =>
        (ret.err = "none" /\ WeightsCountDays)

C13_WeightsFrom24Hours_Witness ==
    /\ ClusteredWithinDays
    /\ Len(raw_data) = 48 /\ ret.args.horizon_length = 24 /\ ret.args.n_clusters = 2
    /\ ret.err = "none"
    /\ ret.value.weights[0][1] + ret.value.weights[0][2] = 2

\* every entry of every representative day is at least 1e-4 or exactly 0
AllSnapped ==
    \A d \in 1..ret.args.n_clusters :
        \A t \in 0..(ret.args.horizon_length - 1) :
            ret.value.lmp_data[d][t] >= SnapThreshold \/ ret.value.lmp_data[d][t] = 0

\* C14 (as claimed): for every horizon_length and cluster count, each of the
\* horizon_length entries of each of the k representative days returned by
\* cluster_lmp_data is at least 1e-4 or exactly 0.
C14_CentroidsSnapped ==
    (ret.op = "cluster_lmp_data" /\ ret.err = "none") => AllSnapped

\* the part of C14 the code keeps: a horizon_length of 24
C14_SnappedAt24Hours ==
    (ret.op = "cluster_lmp_data" /\ ret.err = "none"
        /\ ret.args.horizon_length = SnapHours) => AllSnapped

C14_SnappedAt24Hours_Witness ==
    /\ ret.op = "cluster_lmp_data" /\ ret.err = "none"
    /\ ret.args.horizon_length = 24 /\ ret.args.n_clusters = 1
    /\ Len(raw_data) = 24
    /\ ret.value.lmp_data[1][0] = 0 /\ raw_data[1] < 0
    /\ ret.value.lmp_data[1][3] = 0 /\ raw_data[4] = 8
    /\ ret.value.lmp_data[1][4] = 12

\* C15: reshaping a series of L samples with horizon_length h > 0 gives
\* exactly floor(L / h) daily columns; column d (from 1) holds the samples
\* (d-1)*h .. d*h-1 (from 0) in their order, so the trailing L mod h samples
\* are in no column.
C15_DailyColumns ==
    (ret.op = "reconfigure_raw_data" /\ ret.args.horizon_length > 0) =>
        LET h     == ret.args.horizon_length
            daily == ret.value
        IN  /\ ret.err = "none"
            /\ DOMAIN daily = 1..(Len(raw_data) \div h)
            /\ \A d \in DOMAIN daily :
                   /\ DOMAIN daily[d] = 0..(h - 1)
                   /\ \A t \in 0..(h - 1) : daily[d][t] = raw_data[(d - 1) * h + t + 1]

C15_Witness ==
    /\ ret.op = "reconfigure_raw_data" /\ ret.err = "none"
    /\ Len(raw_data) = 49
    /\ ret.args.horizon_length = 24
    /\ DOMAIN ret.value = {1, 2}
    /\ ret.value[1][0] = raw_data[1]
    /\ ret.value[2][23] = raw_data[48]

\* C16 (as claimed): clustering is deterministic: a cluster_lmp_data call that
\* follows one with the same series, cluster count, horizon_length and seed
\* returns the same representative days and weights, whatever use was made of
\* the process-wide random generator before or between the two.
C16_SameInputsSameClusters ==
    [][(/\ ret.op = "cluster_lmp_data" /\ ret.err = "none"
        /\ ret'.op = "cluster_lmp_data" /\ ret'.args = ret.args)
       => (/\ ret'.err = "none"
           /\ ret'.value.lmp_data = ret.value.lmp_data
           /\ ret'.value.weights = ret.value.weights)]_vars

\* the most recent call was get_optimal_n_clusters with candidates kmin..kmax-1,
\* at least one, none of them above the number of days
ValidElbowCall ==
    /\ ret.op = "get_optimal_n_clusters"
    /\ Candidates(ret.args.kmin, ret.args.kmax) # <<>>
    /\ \A k \in Range(Candidates(ret.args.kmin, ret.args.kmax)) :
           k >= 1 /\ k <= ret.args.n_days

\* one fit and one inertia per candidate, a result among the candidates, and
\* the warning exactly when result + 2 >= kmax
ElbowResult ==
    LET c    == Candidates(ret.args.kmin, ret.args.kmax)
        kmax == c[Len(c)] + 1
    IN  /\ ret.err = "none"
        /\ ret.value.fitted = c
        /\ Len(ret.value.inertia_values) = Len(c)
        /\ \A i \in 1..Len(c) : ret.value.inertia_values[i].n_clusters = c[i]
        /\ ret.value.n_clusters \in Range(c)
        /\ ("close to kmax" \in Range(ret.value.warnings))
               <=> (ret.value.n_clusters + 2 >= kmax)

\* C17 (as claimed): get_optimal_n_clusters fits exactly one partition for each
\* k in kmin..kmax-1 (4 and 30 by default), returns a k of that range with one
\* inertia per candidate, and warns exactly when k + 2 >= kmax; the warning
\* does not abort the call.
C17_ElbowInRange == ValidElbowCall => ElbowResult

\* the part of C17 the code keeps: the calls in which a knee is found
C17_ElbowWhenKneeFound ==
    (ValidElbowCall /\ ret.err # "TypeError") => ElbowResult

C17_ElbowWhenKneeFound_Witness ==
    /\ ValidElbowCall
    /\ ret.args.kmin = None /\ ret.args.kmax = None
    /\ ret.err = "none"
    /\ ret.value.n_clusters = DefaultKmax - 2
    /\ Len(ret.value.inertia_values) = DefaultKmax - DefaultKmin
    /\ Range(ret.value.warnings) = {"kmax was not set", "close to kmax"}

\* C20: the horizon_length setter rejects every value <= 0 with ValueError and
\* leaves the stored value as it was; every value > 0 is stored and is what
\* the getter returns.
C20_HorizonSetter ==
    [][ret'.op = "horizon_length.setter" =>
        LET value == ret'.args.value
        IN  IF value <= 0
            THEN ret'.err = "ValueError" /\ _horizon_length' = _horizon_length
            ELSE ret'.err = "none" /\ _horizon_length' = value
                                   /\ get_horizon_length' = value
    ]_vars

C20_Witness ==
    /\ ret.op = "horizon_length.setter"
    /\ ret.args.value = 0
    /\ ret.err = "ValueError"
    /\ get_horizon_length = SnapHours + 1

C20_Stored_Witness ==
    /\ ret.op = "horizon_length.setter"
    /\ ret.args.value = 2
    /\ ret.err = "none"
    /\ get_horizon_length = 2

\* C24 (as claimed): generate_daily_data terminates for every PriceTakerModel
\* reachable through the constructor and the horizon_length setter and every
\* finite raw series: the stored horizon_length is > 0 in every reachable
\* state, so the cursor of the reshape loop advances on each iteration and no
\* call is left running.
C24_ReshapeTerminates ==
    price_pc # "new" => (_horizon_length > 0 /\ price_pc # "hangs")

\* the part of C24 the code keeps: a horizon_length > 0 makes the reshape return
C24_PositiveHorizonReturns ==
    (ret.op = "reconfigure_raw_data" /\ ret.args.horizon_length > 0) =>
        (ret.err = "none" /\ price_pc = "constructed")

\* ================================================================ price data claims
\* the points a representative day is asked to have
ExpectedTimePoints(horizon_length) ==
    IF horizon_length = None THEN DefaultTimePoints ELSE horizon_length

\* the keys of WEIGHTS a representative day d needs
WeightKeys(d) ==
    IF pt_set_years.given THEN {<<d, y>> : y \in Range(pt_set_years.seq)} ELSE {<<d>>}

\* C25 (as claimed): after append_lmp_data in representative-day mode
\* (n_clusters given) the time set has exactly horizon_length points (24 when
\* unspecified), in the single-signal and in the multi-year branch, and after
\* build_multiperiod_model every period index of mp_model.set_period has an
\* entry in LMP and every representative day has an entry in WEIGHTS.
C25_PeriodsHavePrices ==
    /\ (ret.op = "append_lmp_data" /\ ret.err = "none" /\ ret.args.n_clusters # None)
           => Len(pt_set_time) = ExpectedTimePoints(ret.args.horizon_length)
    /\ (lmp_pc = "appended" /\ pt_set_days.given /\ pc = "constructed")
           => /\ \A p \in Range(set_period) : p \in DOMAIN LMP
              /\ \A d \in Range(pt_set_days.seq) : WeightKeys(d) \subseteq DOMAIN WEIGHTS

\* the part of C25 the code keeps: every entry of LMP is the price of a period
\* of the built model, and every representative day has its weight
C25_PricesArePeriods ==
    (lmp_pc = "appended" /\ pt_set_days.given /\ pc = "constructed")
        => /\ DOMAIN LMP \subseteq Range(set_period)
           /\ (pt_set_time # <<>> =>
                  \A d \in Range(pt_set_days.seq) : WeightKeys(d) \subseteq DOMAIN WEIGHTS)

C25_PricesArePeriods_Witness ==
    /\ lmp_pc = "appended" /\ pt_set_days.given /\ pc = "constructed"
    /\ LMP # <<>>
    /\ ret.op = "build_multiperiod_model"

====
